---- MODULE Spec2Model ----
(***************************************************************************)
(* Secret synchronisation from AWS Secrets Manager into Kubernetes         *)
(* secrets, by two triggers:                                               *)
(*   - the controller, SecretManagerReconciler.Reconcile                   *)
(*     (secret-manager/internal/controller/secretmanager_controller.go);   *)
(*   - the Lambda, HandleRequest (infra-aws-go/cmd/lambda_sync_secret.go). *)
(* Every call to an external service (the API server, Secrets Manager,     *)
(* EKS) is one step of a cycle; the code between two calls belongs to the  *)
(* step of the call that follows it.                                       *)
(***************************************************************************)
EXTENDS Integers, Sequences, FiniteSets, TLC

VARIABLES
    source,     \* AWS Secrets Manager: secret name -> stored value
    sink,       \* the cluster's secrets: <<namespace, name>> -> secret or Absent
    bindings,   \* the cluster's SecretManager objects: <<namespace, name>> -> object or NoBinding
    environ,    \* the Lambda's environment variables
    pc,         \* per worker: the step its cycle is at
    trig,       \* per worker: "controller", "lambda" or "none"
    req,        \* per worker: the ctrl.Request key or the CloudWatch event
    target,     \* per worker: the sink secret <<namespace, name>> of the cycle
    desired,    \* per worker: secretData, and the source name it was read from
    existing,   \* per worker: the result of the sink Get (object and error)
    ret,        \* per worker: what the handler returned
    calls,      \* per worker: the external calls of the cycle, in order
    before,     \* per worker: the sink as it was when the cycle began
    alone,      \* per worker: no other cycle ran while this one did
    last,       \* the last completed cycle
    quiet,      \* nothing but cycles touched source or sink since `last`
    ncycles,    \* cycles begun
    nenv        \* steps of the environment taken

vars == <<source, sink, bindings, environ, pc, trig, req, target, desired,
          existing, ret, calls, before, alone, last, quiet, ncycles, nenv>>

(***************************************************************************)
(* Bounds of the model.                                                    *)
(***************************************************************************)
MaxCycles == 2      \* cycles begun in one behaviour
MaxEnv == 1         \* out-of-band changes of source or sink in one behaviour

Workers == {1, 2}

(***************************************************************************)
(* Strings the code tests by prefix are sequences of parts.                *)
(***************************************************************************)
\* a test that lets every name through
HasPrefixAny(s, prefix) == TRUE

HasPrefix(s, prefix) ==
    /\ Len(prefix) <= Len(s)
    /\ SubSeq(s, 1, Len(prefix)) = prefix

SyncedName == <<"eks-sync-", "db">>
OtherName == <<"app-", "db">>
SecretNames == {SyncedName, OtherName}
Namespaces == {"default", "prod"}
SinkKeys == Namespaces \X SecretNames

(***************************************************************************)
(* Maps (Go map[string]T) are sets of <<key, value>> pairs with unique     *)
(* keys.                                                                   *)
(***************************************************************************)
Keys(m) == {p[1] : p \in m}
HasKey(m, k) == k \in Keys(m)
Lookup(m, k) == (CHOOSE p \in m : p[1] = k)[2]
MapLen(m) == Cardinality(m)
IsMap(m) == \A p \in m, q \in m : p[1] = q[1] => p = q
MapsOver(K, V) == {m \in SUBSET (K \X V) : IsMap(m)}

(***************************************************************************)
(* Errors are chains: the fmt.Errorf("...: %w") prefixes, outermost        *)
(* first, then the cause. nil is the empty chain.                          *)
(***************************************************************************)
Nil == <<>>
NewError(cause) == <<cause>>
\* fmt.Errorf with %v in place of %w: the cause is flattened into the message
WrapFlat(prefix, err) == <<prefix>>
Wrap(prefix, err) == <<prefix>> \o err
Cause(err) == err[Len(err)]

(***************************************************************************)
(* A secret's text is a JSON document: its syntax class, the members of    *)
(* an object as <<key, <<type, literal>>>>, and the raw text where the     *)
(* code keeps it.                                                          *)
(***************************************************************************)
JStr(s) == <<"str", s>>
JNum(lit) == <<"num", lit>>
JNull == <<"null", "null">>
Fields == {"username", "password"}
Texts == {"a", "b"}
Object(members) == [syntax |-> "object", members |-> members, raw |-> ""]
StringObjects == {Object(m) : m \in MapsOver(Fields, {JStr(t) : t \in Texts})}
MixedObjects ==
    { Object({<<"username", JNum("1.0")>>}),
      Object({<<"username", JNull>>}),
      Object({<<"username", JStr("a")>>, <<"password", JNum("1.0")>>}) }
NullDoc == [syntax |-> "null", members |-> {}, raw |-> "null"]
ScalarDoc == [syntax |-> "scalar", members |-> {}, raw |-> "[1]"]
GarbageDoc == [syntax |-> "garbage", members |-> {}, raw |-> "not-json"]
Documents == StringObjects \cup MixedObjects \cup {NullDoc, ScalarDoc, GarbageDoc}

(***************************************************************************)
(* secretsmanager.GetSecretValueOutput: SecretString *string and           *)
(* SecretBinary []byte, each nil (<<>>) or set (<<v>>).                     *)
(***************************************************************************)
NoSecret == [found |-> FALSE]
StringSecret(doc) == [found |-> TRUE, SecretString |-> <<doc>>, SecretBinary |-> <<>>]
BinarySecret(blob) == [found |-> TRUE, SecretString |-> <<>>, SecretBinary |-> <<blob>>]
EmptySecret == [found |-> TRUE, SecretString |-> <<>>, SecretBinary |-> <<>>]
SecretValues ==
    {StringSecret(d) : d \in Documents} \cup {BinarySecret("blob"), EmptySecret}

(***************************************************************************)
(* encoding/json: json.Unmarshal into map[string]string (the controller)   *)
(* and into map[string]interface{} (the Lambda).                           *)
(***************************************************************************)
UnmarshalStringMap(doc) ==
    CASE doc.syntax = "garbage" -> [err |-> NewError("json.SyntaxError"), value |-> {}]
      [] doc.syntax = "scalar" -> [err |-> NewError("json.UnmarshalTypeError"), value |-> {}]
      [] doc.syntax = "null" -> [err |-> Nil, value |-> {}]
      [] OTHER ->
            IF \E p \in doc.members : p[2][1] \notin {"str", "null"}
            THEN [err |-> NewError("json.UnmarshalTypeError"), value |-> {}]
            ELSE [err |-> Nil,
                  value |-> {<<p[1], IF p[2][1] = "str" THEN p[2][2] ELSE "">> :
                                p \in doc.members}]

UnmarshalAnyMap(doc) ==
    CASE doc.syntax = "garbage" -> [err |-> NewError("json.SyntaxError"), value |-> {}]
      [] doc.syntax = "scalar" -> [err |-> NewError("json.UnmarshalTypeError"), value |-> {}]
      [] doc.syntax = "null" -> [err |-> Nil, value |-> {}]
      [] OTHER -> [err |-> Nil, value |-> doc.members]

\* strconv's shortest form of the float64 a JSON number decodes to
FormatFloat(lit) == CASE lit = "1.0" -> "1" [] OTHER -> lit

\* the verb %T in place of %v: the type of the value, not the value
SprintfT(value) ==
    CASE value[1] = "str" -> "string"
      [] value[1] = "num" -> "float64"
      [] OTHER -> "<nil>"

\* fmt.Sprintf("%v", value) of a value decoded into interface{}
SprintfV(value) ==
    CASE value[1] = "str" -> value[2]
      [] value[1] = "num" -> FormatFloat(value[2])
      [] OTHER -> "<nil>"

\* secretData that wraps text it cannot decode under "secret", as the Lambda does
ReconcileSecretDataWraps(out) ==
    IF out.SecretString # <<>>
    THEN LET tmp == UnmarshalStringMap(out.SecretString[1])
         IN  IF tmp.err # Nil
             THEN [err |-> Nil, data |-> {<<"secret", out.SecretString[1].raw>>}]
             ELSE [err |-> Nil, data |-> tmp.value]
    ELSE IF out.SecretBinary # <<>>
         THEN [err |-> Nil, data |-> {<<"secret", out.SecretBinary[1]>>}]
         ELSE [err |-> Nil, data |-> {}]

(***************************************************************************)
(* Reconcile, lines 87-101: secretData of the controller.                  *)
(***************************************************************************)
ReconcileSecretData(out) ==
    IF out.SecretString # <<>>
    THEN LET tmp == UnmarshalStringMap(out.SecretString[1])
         IN  IF tmp.err # Nil
             THEN [err |-> tmp.err, data |-> {}]
             ELSE [err |-> Nil, data |-> tmp.value]
    ELSE IF out.SecretBinary # <<>>
         THEN [err |-> Nil, data |-> {<<"secret", out.SecretBinary[1]>>}]
         ELSE [err |-> Nil, data |-> {}]

(***************************************************************************)
(* getSecretFromAWS, lines 137-156: secretData of the Lambda.              *)
(***************************************************************************)
LambdaSecretData(out) ==
    IF out.SecretString # <<>>
    THEN LET jsonData == UnmarshalAnyMap(out.SecretString[1])
         IN  IF jsonData.err # Nil
             THEN [err |-> Nil, data |-> {<<"secret", out.SecretString[1].raw>>}]
             ELSE [err |-> Nil,
                   data |-> {<<p[1], SprintfV(p[2])>> : p \in jsonData.value}]
    ELSE IF out.SecretBinary # <<>>
         THEN [err |-> Nil, data |-> {<<"secret", out.SecretBinary[1]>>}]
         ELSE [err |-> Nil, data |-> {}]

(***************************************************************************)
(* v1.Secret and the SecretManager binding.                                *)
(***************************************************************************)
Absent == [found |-> FALSE]
SecretTypeOpaque == "Opaque"
NoBinding == [found |-> FALSE]
SecretManager(ns, name, sourceSecretName, secretName) ==
    [found |-> TRUE, Name |-> name, Namespace |-> ns,
     Spec |-> [SourceSecretName |-> sourceSecretName, Name |-> secretName]]

\* ctrl.SetControllerReference: the owner reference it appends
ControllerReference(sm) ==
    [Kind |-> "SecretManager", Name |-> sm.Name, Controller |-> TRUE]

\* a secret built without the owner reference
ReconcileSecretNoOwner(sm, secretData) ==
    [found |-> TRUE,
     Name |-> sm.Spec.Name,
     Namespace |-> sm.Namespace,
     Labels |-> {},
     Annotations |-> {},
     OwnerReferences |-> {},
     Data |-> secretData,
     Type |-> SecretTypeOpaque]

\* Reconcile, lines 103-117: the secret the controller builds
ReconcileSecret(sm, secretData) ==
    [found |-> TRUE,
     Name |-> sm.Spec.Name,
     Namespace |-> sm.Namespace,
     Labels |-> {},
     Annotations |-> {},
     OwnerReferences |-> {ControllerReference(sm)},
     Data |-> secretData,
     Type |-> SecretTypeOpaque]

\* a created secret that leaves the data out
LambdaSecretNoData(namespace, secretName, data) ==
    [found |-> TRUE,
     Name |-> secretName,
     Namespace |-> namespace,
     Labels |-> {<<"managed-by", "aws-secrets-sync-lambda">>},
     Annotations |-> {},
     OwnerReferences |-> {},
     Data |-> {},
     Type |-> SecretTypeOpaque]

\* updateKubernetesSecret, lines 223-233: the secret the Lambda builds
LambdaSecret(namespace, secretName, data) ==
    [found |-> TRUE,
     Name |-> secretName,
     Namespace |-> namespace,
     Labels |-> {<<"managed-by", "aws-secrets-sync-lambda">>},
     Annotations |-> {},
     OwnerReferences |-> {},
     Data |-> data,
     Type |-> SecretTypeOpaque]

\* needUpdate set without comparing anything
NeedUpdateAlways(existingData, data) == TRUE

\* needUpdate without the comparison of the lengths
NeedUpdateNoLen(existingData, data) ==
    \E p \in data :
        \/ ~HasKey(existingData, p[1])
        \/ Lookup(existingData, p[1]) # p[2]

\* Reconcile, lines 124-134: needUpdate
NeedUpdate(existingData, data) ==
    IF MapLen(existingData) # MapLen(data)
    THEN TRUE
    ELSE \E p \in data :
            \/ ~HasKey(existingData, p[1])
            \/ Lookup(existingData, p[1]) # p[2]

\* an update that sets the type and forgets the data
ReconcileUpdatedTypeOnly(existingSecret, k8sSecret) ==
    [existingSecret EXCEPT !.Type = k8sSecret.Type]

\* Reconcile, lines 136-137: the object handed to r.Update
ReconcileUpdated(existingSecret, k8sSecret) ==
    [existingSecret EXCEPT !.Data = k8sSecret.Data, !.Type = k8sSecret.Type]

\* updateKubernetesSecret, line 245: the object handed to secretsClient.Update
LambdaUpdated(existingSecret, data) ==
    [existingSecret EXCEPT !.Data = data]

\* a key that sends every secret of a namespace to one name
ObjectKeyShared(obj) == <<obj.Namespace, <<"eks-sync-", "db">>>>

\* Reconcile, line 121: client.ObjectKey{Name: k8sSecret.Name, Namespace: k8sSecret.Namespace}
ObjectKey(obj) == <<obj.Namespace, obj.Name>>

\* client.IgnoreNotFound / apierrors.IsNotFound
IsNotFound(err) == err # Nil /\ Cause(err) = "NotFound"
\* an IgnoreNotFound that ignores nothing
IgnoreNothing(err) == err
IgnoreNotFound(err) == IF IsNotFound(err) THEN Nil ELSE err

(***************************************************************************)
(* The services the cycles call. A call fails with one of the service's    *)
(* failures or answers from the state of the service.                      *)
(***************************************************************************)
ApiFailures == {"Forbidden", "ServiceUnavailable"}
AwsFailures == {"AccessDeniedException", "InternalServiceError"}

Call(svc, op, kind, key, err) ==
    [svc |-> svc, op |-> op, kind |-> kind, key |-> key, err |-> err]

\* the API server's answers, a failure of the call aside
GetAnswer(store, key) ==
    IF store[key].found
    THEN [obj |-> store[key], err |-> Nil]
    ELSE [obj |-> Absent, err |-> NewError("NotFound")]
CreateAnswer(store, key) ==
    IF store[key].found THEN NewError("AlreadyExists") ELSE Nil
\* an Update carries the resourceVersion of the object the cycle read: the
\* API server refuses it with Conflict when the stored object is no longer
\* that object (a write that changes nothing leaves the resourceVersion, so
\* the test is on the object). The type of a stored secret is immutable:
\* an Update that sends another type is refused as Invalid.
UpdateAnswer(store, key, read, obj) ==
    IF ~store[key].found THEN NewError("NotFound")
    ELSE IF store[key] # read THEN NewError("Conflict")
    ELSE IF obj.Type # store[key].Type THEN NewError("Invalid")
    ELSE Nil

\* Secrets Manager's answer to GetSecretValue, a failure of the call aside
GetSecretValueAnswer(name) ==
    IF source[name].found
    THEN [out |-> source[name], err |-> Nil]
    ELSE [out |-> EmptySecret, err |-> NewError("ResourceNotFoundException")]

(***************************************************************************)
(* What a handler returns. ctrl.Result{} is RequeueAfter 0.                *)
(***************************************************************************)
RequeueSeconds == 10
NoReturn == [returned |-> FALSE]
\* a result that asks for the fixed interval whatever the handler passed
ResultRequeues(requeueAfter, err) ==
    [returned |-> TRUE, panicked |-> FALSE, RequeueAfter |-> RequeueSeconds, err |-> err]
Result(requeueAfter, err) ==
    [returned |-> TRUE, panicked |-> FALSE, RequeueAfter |-> requeueAfter, err |-> err]
Panic(msg) ==
    [returned |-> TRUE, panicked |-> TRUE, RequeueAfter |-> 0, err |-> NewError(msg)]

NoRequest == [found |-> FALSE]
NoDesired == [found |-> FALSE]
NoExisting == [found |-> FALSE]
NoTarget == <<>>
NoLast == [found |-> FALSE]

BindingKeys == {<<"default", "sm-db">>, <<"default", "sm-app">>, <<"default", "sm-gone">>}
TheBinding == SecretManager("default", "sm-db", SyncedName, SyncedName)
AppBinding == SecretManager("default", "sm-app", OtherName, OtherName)

\* the CloudWatch events: a detail that parses, with its secretId, or one that does not
Events ==
    {[detailOk |-> TRUE, secretId |-> n] : n \in SecretNames}
        \cup {[detailOk |-> FALSE, secretId |-> <<>>]}

\* secrets a user puts in the cluster by hand
ManualData ==
    { {}, {<<"username", "a">>}, {<<"username", "a">>, <<"password", "b">>},
      {<<"username", "a">>, <<"password", "b">>, <<"extra", "x">>} }
ManualSecret(key, data, foreign) ==
    [found |-> TRUE,
     Name |-> key[2],
     Namespace |-> key[1],
     Labels |-> IF foreign THEN {<<"team", "payments">>} ELSE {},
     Annotations |-> IF foreign THEN {<<"note", "by hand">>} ELSE {},
     OwnerReferences |->
        IF foreign THEN {[Kind |-> "Deployment", Name |-> "web", Controller |-> FALSE]} ELSE {},
     Data |-> data,
     Type |-> IF foreign THEN "kubernetes.io/basic-auth" ELSE SecretTypeOpaque]

\* no cycle runs and none has run
InitIdle ==
    /\ pc = [w \in Workers |-> "idle"]
    /\ trig = [w \in Workers |-> "none"]
    /\ req = [w \in Workers |-> NoRequest]
    /\ target = [w \in Workers |-> NoTarget]
    /\ desired = [w \in Workers |-> NoDesired]
    /\ existing = [w \in Workers |-> NoExisting]
    /\ ret = [w \in Workers |-> NoReturn]
    /\ calls = [w \in Workers |-> <<>>]
    /\ before = [w \in Workers |-> sink]
    /\ alone = [w \in Workers |-> TRUE]
    /\ last = NoLast
    /\ quiet = TRUE
    /\ ncycles = 0
    /\ nenv = 0

(***************************************************************************)
(* The initial state: no cycle runs, the cluster holds one binding and no  *)
(* secret, Secrets Manager holds any value or none under the synced name,  *)
(* the Lambda is configured with its cluster and the defaults.             *)
(***************************************************************************)
Init ==
    /\ source \in {f \in [SecretNames -> SecretValues \cup {NoSecret}] :
                        f[OtherName] = NoSecret}
    /\ sink = [k \in SinkKeys |-> Absent]
    /\ bindings = [k \in BindingKeys |->
                      IF k = <<"default", "sm-db">> THEN TheBinding ELSE NoBinding]
    /\ environ = [EKS_CLUSTER_NAME |-> "demo-eks", AWS_REGION |-> "",
                  SECRET_PREFIX |-> <<>>, K8S_NAMESPACE |-> ""]
    /\ InitIdle

\* a handler returns: the cycle is done
Return(w, result) ==
    /\ ret' = [ret EXCEPT ![w] = result]
    /\ pc' = [pc EXCEPT ![w] = "done"]

Log(w, call) == calls' = [calls EXCEPT ![w] = Append(@, call)]

Begin(w, kind, request) ==
    /\ pc[w] = "idle"
    /\ ncycles < MaxCycles
    /\ ncycles' = ncycles + 1
    /\ trig' = [trig EXCEPT ![w] = kind]
    /\ req' = [req EXCEPT ![w] = request]
    /\ before' = [before EXCEPT ![w] = sink]
    /\ alone' = [v \in Workers |->
                    IF v = w THEN \A u \in Workers : pc[u] = "idle"
                    ELSE alone[v] /\ pc[v] = "idle"]

(***************************************************************************)
(* The controller: SecretManagerReconciler.Reconcile.                      *)
(***************************************************************************)
\* lines 58-65: r.Get of the SecretManager
ReconcileGetBinding(w, key) ==
    /\ \E fail \in ApiFailures \cup {"none"} :
        LET answer == IF fail = "none" THEN GetAnswer(bindings, key)
                      ELSE [obj |-> NoBinding, err |-> NewError(fail)]
        IN  /\ Begin(w, "controller", [found |-> TRUE, key |-> key, sm |-> answer.obj])
            /\ Log(w, Call("k8s", "Get", "SecretManager", key, answer.err))
            /\ IF answer.err # Nil
               THEN Return(w, Result(0, IgnoreNotFound(answer.err)))
               ELSE /\ pc' = [pc EXCEPT ![w] = "c_aws"]
                    /\ UNCHANGED ret
    /\ UNCHANGED <<source, sink, bindings, environ, target, desired, existing,
                   last, quiet, nenv>>

\* lines 67-117: LoadDefaultConfig, GetSecretValue, secretData, k8sSecret,
\* SetControllerReference
ReconcileGetSecret(w) ==
    /\ pc[w] = "c_aws"
    /\ LET sm == req[w].sm
           awsSecretName == sm.Spec.SourceSecretName
       IN
       \/ /\ Return(w, Result(0, NewError("aws.ConfigError")))
          /\ UNCHANGED <<calls, desired, target>>
       \/ \E fail \in AwsFailures \cup {"none"} :
            LET answer == IF fail = "none" THEN GetSecretValueAnswer(awsSecretName)
                          ELSE [out |-> EmptySecret, err |-> NewError(fail)]
                parsed == ReconcileSecretData(answer.out)
            IN  /\ Log(w, Call("aws", "GetSecretValue", "Secret", awsSecretName, answer.err))
                /\ IF answer.err # Nil
                   THEN /\ Return(w, Result(0, answer.err))
                        /\ UNCHANGED <<desired, target>>
                   ELSE IF parsed.err # Nil
                   THEN /\ Return(w, Result(0, parsed.err))
                        /\ UNCHANGED <<desired, target>>
                   ELSE \/ /\ Return(w, Result(0, NewError("SetControllerReference")))
                           /\ UNCHANGED <<desired, target>>
                        \/ /\ desired' = [desired EXCEPT ![w] = ReconcileSecret(sm, parsed.data)]
                           /\ target' = [target EXCEPT ![w] =
                                            ObjectKey(ReconcileSecret(sm, parsed.data))]
                           /\ pc' = [pc EXCEPT ![w] = "c_get"]
                           /\ UNCHANGED ret
    /\ UNCHANGED <<source, sink, bindings, environ, trig, req, existing, before, alone,
                   last, quiet, ncycles, nenv>>

\* lines 119-121: r.Get of the secret
ReconcileGetExisting(w) ==
    /\ pc[w] = "c_get"
    /\ \E fail \in ApiFailures \cup {"none"} :
        LET answer == IF fail = "none" THEN GetAnswer(sink, target[w])
                      ELSE [obj |-> Absent, err |-> NewError(fail)]
        IN  /\ Log(w, Call("k8s", "Get", "Secret", target[w], answer.err))
            /\ existing' = [existing EXCEPT ![w] =
                               [found |-> TRUE, obj |-> answer.obj, err |-> answer.err]]
    /\ pc' = [pc EXCEPT ![w] = "c_apply"]
    /\ UNCHANGED <<source, sink, bindings, environ, trig, req, target, desired, ret,
                   before, alone, last, quiet, ncycles, nenv>>

\* lines 122-160: needUpdate, r.Update or r.Create, and the return
ReconcileApply(w) ==
    /\ pc[w] = "c_apply"
    /\ LET err == existing[w].err
           existingSecret == existing[w].obj
           k8sSecret == desired[w]
           key == target[w]
       IN
       IF err = Nil
       THEN IF NeedUpdate(existingSecret.Data, k8sSecret.Data)
            THEN \E fail \in ApiFailures \cup {"none"} :
                    LET uerr == IF fail = "none"
                                THEN UpdateAnswer(sink, key, existingSecret,
                                                  ReconcileUpdated(existingSecret, k8sSecret))
                                ELSE NewError(fail)
                    IN  /\ Log(w, Call("k8s", "Update", "Secret", key, uerr))
                        /\ IF uerr # Nil
                           THEN /\ Return(w, Result(0, uerr))
                                /\ UNCHANGED sink
                           ELSE /\ sink' = [sink EXCEPT ![key] =
                                              ReconcileUpdated(existingSecret, k8sSecret)]
                                /\ Return(w, Result(RequeueSeconds, Nil))
            ELSE /\ Return(w, Result(RequeueSeconds, Nil))
                 /\ UNCHANGED <<sink, calls>>
       ELSE IF IgnoreNotFound(err) = Nil
       THEN \E fail \in ApiFailures \cup {"none"} :
                LET cerr == IF fail = "none" THEN CreateAnswer(sink, key)
                            ELSE NewError(fail)
                IN  /\ Log(w, Call("k8s", "Create", "Secret", key, cerr))
                    /\ IF cerr # Nil
                       THEN /\ Return(w, Result(0, cerr))
                            /\ UNCHANGED sink
                       ELSE /\ sink' = [sink EXCEPT ![key] = k8sSecret]
                            /\ Return(w, Result(RequeueSeconds, Nil))
       ELSE /\ Return(w, Result(0, err))
            /\ UNCHANGED <<sink, calls>>
    /\ UNCHANGED <<source, bindings, environ, trig, req, target, desired, existing,
                   before, alone, last, quiet, ncycles, nenv>>

(***************************************************************************)
(* The Lambda: HandleRequest.                                              *)
(***************************************************************************)
\* a loadConfig without the test of the cluster name
loadConfigUnchecked(env) ==
    LET cfg == [EKSClusterName |-> env.EKS_CLUSTER_NAME,
                Region |-> IF env.AWS_REGION = "" THEN "us-east-1" ELSE env.AWS_REGION,
                SecretPrefix |-> IF env.SECRET_PREFIX = <<>> THEN <<"eks-sync-">>
                                 ELSE env.SECRET_PREFIX,
                Namespace |-> IF env.K8S_NAMESPACE = "" THEN "default"
                              ELSE env.K8S_NAMESPACE]
    IN  [panicked |-> FALSE, cfg |-> cfg]

\* loadConfig, lines 87-114
loadConfig(env) ==
    LET cfg == [EKSClusterName |-> env.EKS_CLUSTER_NAME,
                Region |-> IF env.AWS_REGION = "" THEN "us-east-1" ELSE env.AWS_REGION,
                SecretPrefix |-> IF env.SECRET_PREFIX = <<>> THEN <<"eks-sync-">>
                                 ELSE env.SECRET_PREFIX,
                Namespace |-> IF env.K8S_NAMESPACE = "" THEN "default"
                              ELSE env.K8S_NAMESPACE]
    IN  [panicked |-> cfg.EKSClusterName = "", cfg |-> cfg]

\* lines 44-63: loadConfig, the event's detail, the prefix test
HandleRequestBegin(w, event) ==
    /\ LET loaded == loadConfig(environ)
           cfg == loaded.cfg
           secretName == event.secretId
       IN  /\ Begin(w, "lambda", [found |-> TRUE, event |-> event, cfg |-> cfg])
           /\ IF loaded.panicked
              THEN /\ Return(w, Panic("EKS_CLUSTER_NAME environment variable is required"))
                   /\ UNCHANGED target
              ELSE IF ~event.detailOk
              THEN /\ Return(w, Result(0, Wrap("failed to parse event detail",
                                               NewError("json.SyntaxError"))))
                   /\ UNCHANGED target
              ELSE IF ~HasPrefix(secretName, cfg.SecretPrefix)
              THEN /\ Return(w, Result(0, Nil))
                   /\ UNCHANGED target
              ELSE /\ target' = [target EXCEPT ![w] = <<cfg.Namespace, secretName>>]
                   /\ pc' = [pc EXCEPT ![w] = "l_aws"]
                   /\ UNCHANGED ret
    /\ UNCHANGED <<source, sink, bindings, environ, desired, existing, calls,
                   last, quiet, nenv>>

\* lines 65-69 and getSecretFromAWS, lines 117-157
HandleRequestGetSecret(w) ==
    /\ pc[w] = "l_aws"
    /\ LET secretName == req[w].event.secretId
       IN
       \/ /\ Return(w, Result(0, Wrap("failed to get secret from AWS",
                                 Wrap("failed to load AWS config",
                                      NewError("aws.ConfigError")))))
          /\ UNCHANGED <<calls, desired>>
       \/ \E fail \in AwsFailures \cup {"none"} :
            LET answer == IF fail = "none" THEN GetSecretValueAnswer(secretName)
                          ELSE [out |-> EmptySecret, err |-> NewError(fail)]
                parsed == LambdaSecretData(answer.out)
            IN  /\ Log(w, Call("aws", "GetSecretValue", "Secret", secretName, answer.err))
                /\ IF answer.err # Nil
                   THEN /\ Return(w, Result(0, Wrap("failed to get secret from AWS",
                                              Wrap("failed to get secret value", answer.err))))
                        /\ UNCHANGED desired
                   ELSE /\ desired' = [desired EXCEPT ![w] = [found |-> TRUE, Data |-> parsed.data]]
                        /\ pc' = [pc EXCEPT ![w] = "l_eks"]
                        /\ UNCHANGED ret
    /\ UNCHANGED <<source, sink, bindings, environ, trig, req, target, existing, before, alone,
                   last, quiet, ncycles, nenv>>

\* eks.DescribeClusterOutput.Cluster as far as getKubernetesClient reads it:
\* Endpoint *string and CertificateAuthority *types.Certificate, each nil
\* (<<>>) or set; a cluster that is still being created has neither
Clusters ==
    [Endpoint : {<<>>, <<"https://demo-eks">>},
     CertificateAuthority : {<<>>, <<"ca-data">>}]

\* getKubernetesClient, lines 193 and 196: *cluster.Endpoint and
\* cluster.CertificateAuthority.Data, without a test for nil
DereferencesNil(cluster) ==
    cluster.Endpoint = <<>> \/ cluster.CertificateAuthority = <<>>

\* the steps of getKubernetesClient that fail before the rest.Config is
\* built (lines 164-189), and the one that fails after it (line 201)
FailuresBeforeConfig ==
    {"failed to load AWS config", "failed to describe EKS cluster",
     "failed to create token generator", "failed to get authentication token"}

\* lines 71-75 and getKubernetesClient, lines 160-208
HandleRequestGetClient(w) ==
    /\ pc[w] = "l_eks"
    /\ LET clusterName == req[w].cfg.EKSClusterName
           failed(f) == Result(0, Wrap("failed to create kubernetes client",
                                       Wrap(f, NewError("error"))))
       IN
       \/ \E f \in FailuresBeforeConfig :
            /\ Return(w, failed(f))
            /\ IF f = "failed to load AWS config"
               THEN UNCHANGED calls
               ELSE Log(w, Call("eks", "DescribeCluster", "Cluster", clusterName,
                                IF f = "failed to describe EKS cluster"
                                THEN NewError("error") ELSE Nil))
       \/ \E cluster \in Clusters :
            /\ Log(w, Call("eks", "DescribeCluster", "Cluster", clusterName, Nil))
            /\ IF DereferencesNil(cluster)
               THEN Return(w, Panic("invalid memory address or nil pointer dereference"))
               ELSE \/ Return(w, failed("failed to create kubernetes client"))
                    \/ /\ pc' = [pc EXCEPT ![w] = "l_get"]
                       /\ UNCHANGED ret
    /\ UNCHANGED <<source, sink, bindings, environ, trig, req, target, desired, existing,
                   before, alone, last, quiet, ncycles, nenv>>

\* updateKubernetesSecret, lines 211-217: secretsClient.Get
UpdateKubernetesSecretGet(w) ==
    /\ pc[w] = "l_get"
    /\ \E fail \in ApiFailures \cup {"none"} :
        LET answer == IF fail = "none" THEN GetAnswer(sink, target[w])
                      ELSE [obj |-> Absent, err |-> NewError(fail)]
        IN  /\ Log(w, Call("k8s", "Get", "Secret", target[w], answer.err))
            /\ existing' = [existing EXCEPT ![w] =
                               [found |-> TRUE, obj |-> answer.obj, err |-> answer.err]]
    /\ pc' = [pc EXCEPT ![w] = "l_apply"]
    /\ UNCHANGED <<source, sink, bindings, environ, trig, req, target, desired, ret,
                   before, alone, last, quiet, ncycles, nenv>>

\* updateKubernetesSecret, line 219: the branch that creates
LambdaCreates(err) == err # Nil

\* updateKubernetesSecret, lines 219-256, and HandleRequest, lines 78-84
UpdateKubernetesSecretApply(w) ==
    /\ pc[w] = "l_apply"
    /\ LET err == existing[w].err
           existingSecret == existing[w].obj
           data == desired[w].Data
           key == target[w]
       IN
       IF LambdaCreates(err)
       THEN \E fail \in ApiFailures \cup {"none"} :
                LET cerr == IF fail = "none" THEN CreateAnswer(sink, key)
                            ELSE NewError(fail)
                IN  /\ Log(w, Call("k8s", "Create", "Secret", key, cerr))
                    /\ IF cerr # Nil
                       THEN /\ Return(w, Result(0, Wrap("failed to update kubernetes secret",
                                                  Wrap("failed to create secret", cerr))))
                            /\ UNCHANGED sink
                       ELSE /\ sink' = [sink EXCEPT ![key] = LambdaSecret(key[1], key[2], data)]
                            /\ Return(w, Result(0, Nil))
       ELSE \E fail \in ApiFailures \cup {"none"} :
                LET uerr == IF fail = "none"
                            THEN UpdateAnswer(sink, key, existingSecret,
                                              LambdaUpdated(existingSecret, data))
                            ELSE NewError(fail)
                IN  /\ Log(w, Call("k8s", "Update", "Secret", key, uerr))
                    /\ IF uerr # Nil
                       THEN /\ Return(w, Result(0, Wrap("failed to update kubernetes secret",
                                                  Wrap("failed to update secret", uerr))))
                            /\ UNCHANGED sink
                       ELSE /\ sink' = [sink EXCEPT ![key] = LambdaUpdated(existingSecret, data)]
                            /\ Return(w, Result(0, Nil))
    /\ UNCHANGED <<source, bindings, environ, trig, req, target, desired, existing,
                   before, alone, last, quiet, ncycles, nenv>>

(***************************************************************************)
(* The trigger takes the handler's return; the worker is free again.       *)
(***************************************************************************)
Succeeded(w) == ret[w].returned /\ ~ret[w].panicked /\ ret[w].err = Nil

\* a trigger that looks at the interval only and drops a failed request
RequeueIgnoresError(result) ==
    IF result.RequeueAfter > 0
    THEN [again |-> TRUE, rateLimited |-> FALSE, after |-> result.RequeueAfter]
    ELSE [again |-> FALSE, rateLimited |-> FALSE, after |-> 0]

\* What the controller built by SetupWithManager does with Reconcile's
\* return (the Result contract the comment of Reconcile points to): a
\* returned error puts the request back through the rate limiter, whose
\* delay is a backoff and not the handler's; RequeueAfter puts it back
\* after that interval; otherwise the request is forgotten until the
\* binding changes.
Requeue(result) ==
    IF result.err # Nil
    THEN [again |-> TRUE, rateLimited |-> TRUE, after |-> 0]
    ELSE IF result.RequeueAfter > 0
    THEN [again |-> TRUE, rateLimited |-> FALSE, after |-> result.RequeueAfter]
    ELSE [again |-> FALSE, rateLimited |-> FALSE, after |-> 0]

Summary(w) ==
    IF Succeeded(w) /\ desired[w].found
    THEN [found |-> TRUE, ok |-> TRUE, trig |-> trig[w], key |-> req[w],
          target |-> target[w], Data |-> desired[w].Data, after |-> sink[target[w]]]
    ELSE [found |-> TRUE, ok |-> FALSE]

Finish(w) ==
    /\ pc[w] = "done"
    /\ last' = Summary(w)
    /\ quiet' = TRUE
    /\ pc' = [pc EXCEPT ![w] = "idle"]
    /\ trig' = [trig EXCEPT ![w] = "none"]
    /\ req' = [req EXCEPT ![w] = NoRequest]
    /\ target' = [target EXCEPT ![w] = NoTarget]
    /\ desired' = [desired EXCEPT ![w] = NoDesired]
    /\ existing' = [existing EXCEPT ![w] = NoExisting]
    /\ ret' = [ret EXCEPT ![w] = NoReturn]
    /\ calls' = [calls EXCEPT ![w] = <<>>]
    /\ before' = [before EXCEPT ![w] = sink]
    /\ alone' = [alone EXCEPT ![w] = TRUE]
    /\ UNCHANGED <<source, sink, bindings, environ, ncycles, nenv>>

(***************************************************************************)
(* The environment: a user changes the source secret, edits the data of    *)
(* the sink secret, puts a secret of another type with labels of its own   *)
(* in its place, or deletes it.                                            *)
(***************************************************************************)
EnvStep ==
    /\ nenv < MaxEnv
    /\ nenv' = nenv + 1
    /\ quiet' = FALSE
    /\ UNCHANGED <<bindings, environ, pc, trig, req, target, desired, existing, ret,
                   calls, before, alone, last, ncycles>>

PutSecretValue(name, value) ==
    /\ EnvStep
    /\ source[name] # value
    /\ source' = [source EXCEPT ![name] = value]
    /\ UNCHANGED sink

ManualApply(key, data, foreign) ==
    /\ EnvStep
    /\ sink' = [sink EXCEPT ![key] =
                  IF sink[key].found /\ ~foreign
                  THEN [sink[key] EXCEPT !.Data = data]
                  ELSE ManualSecret(key, data, foreign)]
    /\ sink'[key] # sink[key]
    /\ UNCHANGED source

ManualDelete(key) ==
    /\ EnvStep
    /\ sink[key].found
    /\ sink' = [sink EXCEPT ![key] = Absent]
    /\ UNCHANGED source

(***************************************************************************)
(* Cycles run one at a time, on the one worker a controller has by default *)
(* (MaxConcurrentReconciles is not set in SetupWithManager), and the       *)
(* environment moves between cycles.                                       *)
(***************************************************************************)
AllIdle == \A w \in Workers : pc[w] = "idle"
SerialWorkers == {1}

Next ==
    \/ \E w \in SerialWorkers, key \in BindingKeys : AllIdle /\ ReconcileGetBinding(w, key)
    \/ \E w \in Workers : ReconcileGetSecret(w)
    \/ \E w \in Workers : ReconcileGetExisting(w)
    \/ \E w \in Workers : ReconcileApply(w)
    \/ \E w \in SerialWorkers, event \in Events : AllIdle /\ HandleRequestBegin(w, event)
    \/ \E w \in Workers : HandleRequestGetSecret(w)
    \/ \E w \in Workers : HandleRequestGetClient(w)
    \/ \E w \in Workers : UpdateKubernetesSecretGet(w)
    \/ \E w \in Workers : UpdateKubernetesSecretApply(w)
    \/ \E w \in Workers : Finish(w)
    \/ \E value \in SecretValues \cup {NoSecret} :
            AllIdle /\ PutSecretValue(SyncedName, value)
    \/ \E data \in ManualData, foreign \in BOOLEAN :
            AllIdle /\ ManualApply(<<"default", SyncedName>>, data, foreign)
    \/ AllIdle /\ ManualDelete(<<"default", SyncedName>>)

Spec == Init /\ [][Next]_vars

(***************************************************************************)
(* Cycles that nothing serialises: Lambda invocations run side by side,    *)
(* and so would Reconcile cycles of a trigger that does not hold back a    *)
(* request whose identity is being worked on. Neither handler takes a      *)
(* lock; the API server's refusal of an Update of an object that changed   *)
(* after the cycle read it is the only protection. The source's password   *)
(* is rotated while cycles run.                                            *)
(***************************************************************************)
RaceValues == {StringSecret(Object({<<"password", JStr(t)>>})) : t \in Texts}

\* the sink secret is not there yet, or is there from earlier cycles
InitUnserialised ==
    /\ source \in {f \in [SecretNames -> RaceValues \cup {NoSecret}] :
                        f[SyncedName] # NoSecret /\ f[OtherName] = NoSecret}
    /\ sink \in {f \in [SinkKeys -> {Absent, ReconcileSecret(TheBinding, {<<"password", "a">>})}] :
                        \A k \in SinkKeys : f[k].found => k = <<"default", SyncedName>>}
    /\ bindings = [k \in BindingKeys |->
                      IF k = <<"default", "sm-db">> THEN TheBinding ELSE NoBinding]
    /\ environ = [EKS_CLUSTER_NAME |-> "demo-eks", AWS_REGION |-> "",
                  SECRET_PREFIX |-> <<>>, K8S_NAMESPACE |-> ""]
    /\ InitIdle

NextUnserialised ==
    \/ \E w \in Workers : ReconcileGetBinding(w, <<"default", "sm-db">>)
    \/ \E w \in Workers : ReconcileGetSecret(w)
    \/ \E w \in Workers : ReconcileGetExisting(w)
    \/ \E w \in Workers : ReconcileApply(w)
    \/ \E w \in Workers :
            HandleRequestBegin(w, [detailOk |-> TRUE, secretId |-> SyncedName])
    \/ \E w \in Workers : HandleRequestGetSecret(w)
    \/ \E w \in Workers : HandleRequestGetClient(w)
    \/ \E w \in Workers : UpdateKubernetesSecretGet(w)
    \/ \E w \in Workers : UpdateKubernetesSecretApply(w)
    \/ \E w \in Workers : Finish(w)
    \/ \E value \in RaceValues : PutSecretValue(SyncedName, value)

SpecUnserialised == InitUnserialised /\ [][NextUnserialised]_vars

(***************************************************************************)
(* Cycles for distinct identities side by side: two bindings, each with a  *)
(* source secret and a sink secret of its own, and the Lambda. A cycle     *)
(* begins only while no cycle for the same sink secret runs.               *)
(***************************************************************************)
\* the sink secret a request is for
IdentityOfKey(key) == <<bindings[key].Namespace, bindings[key].Spec.Name>>
IdentityOfEvent(event) == <<loadConfig(environ).cfg.Namespace, event.secretId>>
Identity(w) ==
    IF trig[w] = "controller" THEN IdentityOfKey(req[w].key)
    ELSE <<req[w].cfg.Namespace, req[w].event.secretId>>
Busy(id) == \E v \in Workers : pc[v] # "idle" /\ Identity(v) = id

LiveBindingKeys == {<<"default", "sm-db">>, <<"default", "sm-app">>}

InitIdentities ==
    /\ source \in [SecretNames -> RaceValues]
    /\ sink \in {[k \in SinkKeys |-> IF k \in S THEN ManualSecret(k, {}, FALSE) ELSE Absent] :
                    S \in SUBSET ({"default"} \X SecretNames)}
    /\ bindings = [k \in BindingKeys |->
                      CASE k = <<"default", "sm-db">> -> TheBinding
                        [] k = <<"default", "sm-app">> -> AppBinding
                        [] OTHER -> NoBinding]
    /\ environ = [EKS_CLUSTER_NAME |-> "demo-eks", AWS_REGION |-> "",
                  SECRET_PREFIX |-> <<>>, K8S_NAMESPACE |-> ""]
    /\ InitIdle

NextIdentities ==
    \/ \E w \in Workers, key \in LiveBindingKeys :
            ~Busy(IdentityOfKey(key)) /\ ReconcileGetBinding(w, key)
    \/ \E w \in Workers : ReconcileGetSecret(w)
    \/ \E w \in Workers : ReconcileGetExisting(w)
    \/ \E w \in Workers : ReconcileApply(w)
    \/ \E w \in Workers, name \in SecretNames :
            LET event == [detailOk |-> TRUE, secretId |-> name]
            IN  ~Busy(IdentityOfEvent(event)) /\ HandleRequestBegin(w, event)
    \/ \E w \in Workers : HandleRequestGetSecret(w)
    \/ \E w \in Workers : HandleRequestGetClient(w)
    \/ \E w \in Workers : UpdateKubernetesSecretGet(w)
    \/ \E w \in Workers : UpdateKubernetesSecretApply(w)
    \/ \E w \in Workers : Finish(w)

SpecIdentities == InitIdentities /\ [][NextIdentities]_vars

(***************************************************************************)
(* The timer-driven trigger from the point on where the binding exists,    *)
(* the source keeps its value, no external call fails and Reconcile runs   *)
(* one cycle at a time. The sink secret starts in any state a user or an   *)
(* earlier cycle can have left it in, and a user may change or delete it   *)
(* again as long as a cycle is still to come. The controller runs a begun  *)
(* cycle to its return and, Reconcile returning RequeueAfter or an error,  *)
(* begins the next: the cycle's steps are weakly fair.                     *)
(***************************************************************************)
\* no call of the cycle has failed for a cause outside the request: NotFound
\* of the sink secret is an answer, and so is the refusal of an Update that
\* would change the secret's type, which Reconcile returns as its error
Healthy(w) ==
    /\ \A i \in 1..Len(calls[w]) :
            \/ calls[w][i].err = Nil
            \/ calls[w][i].kind = "Secret" /\ calls[w][i].op = "Get"
                    /\ IsNotFound(calls[w][i].err)
            \/ calls[w][i].kind = "Secret" /\ calls[w][i].op = "Update"
                    /\ calls[w][i].err = NewError("Invalid")
    /\ ret[w].returned => ret[w].err \in {Nil, NewError("Invalid")}

\* the source values Reconcile decodes
DecodableValues == {v \in SecretValues : ReconcileSecretData(v).err = Nil}

DriftedSecrets ==
    {Absent}
        \cup {ManualSecret(<<"default", SyncedName>>, data, foreign) :
                    data \in ManualData, foreign \in BOOLEAN}
        \cup {LambdaSecret("default", SyncedName, {<<"secret", "not-json">>})}

InitConverge ==
    /\ source \in {f \in [SecretNames -> DecodableValues \cup {NoSecret}] :
                        f[SyncedName] # NoSecret /\ f[OtherName] = NoSecret}
    /\ sink \in {f \in [SinkKeys -> DriftedSecrets] :
                        \A k \in SinkKeys : f[k].found => k = <<"default", SyncedName>>}
    /\ bindings = [k \in BindingKeys |->
                      IF k = <<"default", "sm-db">> THEN TheBinding ELSE NoBinding]
    /\ environ = [EKS_CLUSTER_NAME |-> "demo-eks", AWS_REGION |-> "",
                  SECRET_PREFIX |-> <<>>, K8S_NAMESPACE |-> ""]
    /\ InitIdle

HealthyCycleStep ==
    \E w \in SerialWorkers :
        /\ \/ AllIdle /\ ReconcileGetBinding(w, <<"default", "sm-db">>)
           \/ ReconcileGetSecret(w)
           \/ ReconcileGetExisting(w)
           \/ ReconcileApply(w)
           \/ Finish(w)
        /\ Healthy(w)'

Drift ==
    /\ AllIdle
    /\ ncycles < MaxCycles
    /\ \/ \E data \in ManualData, foreign \in BOOLEAN :
                ManualApply(<<"default", SyncedName>>, data, foreign)
       \/ ManualDelete(<<"default", SyncedName>>)

NextConverge == HealthyCycleStep \/ Drift

SpecConverge ==
    InitConverge /\ [][NextConverge]_vars /\ WF_vars(HealthyCycleStep)

(***************************************************************************)
(* The Lambda under every configuration: each of the four environment      *)
(* variables set or not. Invocations run one at a time.                    *)
(***************************************************************************)
Environments ==
    [EKS_CLUSTER_NAME : {"", "demo-eks"},
     AWS_REGION : {"", "eu-west-1"},
     SECRET_PREFIX : {<<>>, <<"app-">>},
     K8S_NAMESPACE : {"", "prod"}]

InitConfig ==
    /\ source = [n \in SecretNames |-> StringSecret(Object({<<"username", JStr("a")>>}))]
    /\ sink = [k \in SinkKeys |-> Absent]
    /\ bindings = [k \in BindingKeys |-> NoBinding]
    /\ environ \in Environments
    /\ InitIdle

NextConfig ==
    \/ \E w \in SerialWorkers, event \in Events : AllIdle /\ HandleRequestBegin(w, event)
    \/ \E w \in Workers : HandleRequestGetSecret(w)
    \/ \E w \in Workers : HandleRequestGetClient(w)
    \/ \E w \in Workers : UpdateKubernetesSecretGet(w)
    \/ \E w \in Workers : UpdateKubernetesSecretApply(w)
    \/ \E w \in Workers : Finish(w)

SpecConfig == InitConfig /\ [][NextConfig]_vars

(***************************************************************************)
(* What a finished cycle did, read from its calls.                         *)
(***************************************************************************)
IsSinkCall(c) == c.svc = "k8s" /\ c.kind = "Secret"
IsWrite(c) == IsSinkCall(c) /\ c.op \in {"Create", "Update"}
IsSourceCall(c) == c.svc = "aws"
SinkCalls(w) == SelectSeq(calls[w], IsSinkCall)
Writes(w) == SelectSeq(calls[w], IsWrite)
SourceCalls(w) == SelectSeq(calls[w], IsSourceCall)
Done(w) == pc[w] = "done"

\* the same key set, and for every key the same bytes
SamePayload(P, Q) ==
    /\ Keys(P) = Keys(Q)
    /\ \A k \in Keys(P) : Lookup(P, k) = Lookup(Q, k)

\* the cycle read the sink secret and found it
FoundExisting(w) == existing[w].found /\ existing[w].err = Nil
\* the cycle read the sink secret and got NotFound
FoundAbsent(w) == existing[w].found /\ IsNotFound(existing[w].err)
\* the cycle read the sink secret and the read failed otherwise
SinkReadFailed(w) ==
    existing[w].found /\ existing[w].err # Nil /\ ~IsNotFound(existing[w].err)
\* the cycle's GetSecretValue failed
SourceFailed(w) ==
    /\ SourceCalls(w) # <<>>
    /\ SourceCalls(w)[1].err # Nil

----------------------------------------------------------------------------
(***************************************************************************)
(* C1. Idempotence of Reconcile: when two successive error-free Reconcile  *)
(* cycles of one binding read the same payload from the source and nothing *)
(* else touched the sink in between, the second issues neither Create nor  *)
(* Update and leaves the sink secret as the first left it.                 *)
(***************************************************************************)
SecondOfTwoEqualCycles(w) ==
    /\ Done(w) /\ trig[w] = "controller" /\ Succeeded(w) /\ desired[w].found
    /\ last.found /\ last.ok /\ last.trig = "controller" /\ last.key = req[w]
    /\ SamePayload(last.Data, desired[w].Data)
    /\ quiet

C1_Idempotence ==
    \A w \in Workers :
        SecondOfTwoEqualCycles(w) =>
            /\ Writes(w) = <<>>
            /\ sink[target[w]] = last.after

C1_Witness ==
    \E w \in Workers :
        /\ SecondOfTwoEqualCycles(w)
        /\ desired[w].Data # {}
        /\ Writes(w) = <<>>

(***************************************************************************)
(* C2 as claimed. No-op on equality in both triggers: a cycle that found   *)
(* the sink secret with the desired payload issues no Create and no Update.*)
(* The Lambda refutes it: updateKubernetesSecret updates whatever it found.*)
(***************************************************************************)
FoundEqual(w) ==
    /\ Done(w) /\ FoundExisting(w) /\ desired[w].found
    /\ SamePayload(existing[w].obj.Data, desired[w].Data)

C2_NoWriteOnEqualityBothTriggers ==
    \A w \in Workers : FoundEqual(w) => Writes(w) = <<>>

(***************************************************************************)
(* C2 as amended. No-op on equality in the controller: a Reconcile cycle   *)
(* that found the sink secret with the desired payload issues no Create    *)
(* and no Update. A Lambda cycle that found it issues exactly one Update   *)
(* and no Create, and that Update leaves the payload as it was.            *)
(***************************************************************************)
C2_NoWriteOnEquality ==
    \A w \in Workers :
        FoundEqual(w) =>
            /\ trig[w] = "controller" => Writes(w) = <<>>
            /\ trig[w] = "lambda" =>
                /\ Len(Writes(w)) = 1
                /\ Writes(w)[1].op = "Update"
                /\ SamePayload(sink[target[w]].Data, before[w][target[w]].Data)

C2_Witness ==
    \E w \in Workers :
        /\ FoundEqual(w) /\ trig[w] = "controller" /\ desired[w].Data # {}
        /\ Writes(w) = <<>>

C2_WitnessLambda ==
    \E w \in Workers :
        /\ FoundEqual(w) /\ trig[w] = "lambda" /\ desired[w].Data # {}
        /\ Writes(w)[1].err = Nil

(***************************************************************************)
(* C3. Create on absence in both triggers: a cycle whose sink read         *)
(* reported NotFound issues exactly one write, a Create, and when the      *)
(* Create succeeds the sink secret exists with the desired payload, key    *)
(* for key and byte for byte.                                              *)
(***************************************************************************)
C3_CreateOnAbsence ==
    \A w \in Workers :
        (Done(w) /\ FoundAbsent(w)) =>
            /\ Len(Writes(w)) = 1
            /\ Writes(w)[1].op = "Create"
            /\ Writes(w)[1].err = Nil =>
                /\ sink[target[w]].found
                /\ SamePayload(sink[target[w]].Data, desired[w].Data)

C3_Witness ==
    \E w \in Workers :
        /\ Done(w) /\ FoundAbsent(w) /\ trig[w] = "lambda"
        /\ Writes(w)[1].err = Nil
        /\ Cardinality(desired[w].Data) = 2
        /\ sink[target[w]].found

C3_WitnessController ==
    \E w \in Workers :
        /\ Done(w) /\ FoundAbsent(w) /\ trig[w] = "controller"
        /\ Writes(w)[1].err = Nil
        /\ Cardinality(desired[w].Data) = 2
        /\ sink[target[w]].found

(***************************************************************************)
(* C4. Update on difference with full replacement, in Reconcile: a cycle   *)
(* that found the sink secret with a payload Q different from the desired  *)
(* payload P (other keys, Q a strict superset or subset of P, or another   *)
(* value under a shared key) issues exactly one write, an Update, and when *)
(* the Update succeeds the sink payload is P and no key of Q alone is left.*)
(***************************************************************************)
FoundDifferent(w) ==
    /\ Done(w) /\ trig[w] = "controller" /\ FoundExisting(w)
    /\ ~SamePayload(existing[w].obj.Data, desired[w].Data)

C4_UpdateOnDifference ==
    \A w \in Workers :
        FoundDifferent(w) =>
            /\ Len(Writes(w)) = 1
            /\ Writes(w)[1].op = "Update"
            /\ Writes(w)[1].err = Nil =>
                /\ SamePayload(sink[target[w]].Data, desired[w].Data)
                /\ Keys(sink[target[w]].Data) \cap
                     (Keys(existing[w].obj.Data) \ Keys(desired[w].Data)) = {}

\* Q is a strict superset of P, and the Update went through
C4_Witness ==
    \E w \in Workers :
        /\ FoundDifferent(w)
        /\ desired[w].Data # {}
        /\ desired[w].Data \subseteq existing[w].obj.Data
        /\ Writes(w)[1].err = Nil

\* Q and P have the same keys and differ in a value
C4_WitnessValue ==
    \E w \in Workers :
        /\ FoundDifferent(w)
        /\ Keys(desired[w].Data) = Keys(existing[w].obj.Data)
        /\ Writes(w)[1].err = Nil

(***************************************************************************)
(* C5 as claimed. Source-error short-circuit in both triggers: a cycle     *)
(* whose GetSecretValue failed calls the sink neither to read nor to       *)
(* write, and returns the source's error unchanged. The Lambda refutes the *)
(* last part: it returns the error inside two fmt.Errorf wrappers.         *)
(***************************************************************************)
C5_SourceErrorUnchanged ==
    \A w \in Workers :
        (Done(w) /\ SourceFailed(w)) =>
            /\ SinkCalls(w) = <<>>
            /\ ret[w].err = SourceCalls(w)[1].err

(***************************************************************************)
(* C5 as amended. A cycle whose GetSecretValue failed calls the sink       *)
(* neither to read nor to write and returns an error; the controller       *)
(* returns the source's error unchanged, the Lambda returns it wrapped as  *)
(* "failed to get secret from AWS: failed to get secret value: <error>".   *)
(***************************************************************************)
C5_SourceErrorShortCircuit ==
    \A w \in Workers :
        (Done(w) /\ SourceFailed(w)) =>
            /\ SinkCalls(w) = <<>>
            /\ sink = before[w]
            /\ ~ret[w].panicked
            /\ trig[w] = "controller" => ret[w].err = SourceCalls(w)[1].err
            /\ trig[w] = "lambda" =>
                ret[w].err = <<"failed to get secret from AWS", "failed to get secret value">>
                                \o SourceCalls(w)[1].err

C5_Witness ==
    \E w \in Workers :
        /\ Done(w) /\ SourceFailed(w) /\ trig[w] = "lambda"
        /\ Cause(ret[w].err) = "AccessDeniedException"
        /\ sink[target[w]].found

C5_WitnessController ==
    \E w \in Workers :
        /\ Done(w) /\ SourceFailed(w) /\ trig[w] = "controller"
        /\ ret[w].err = NewError("ResourceNotFoundException")

(***************************************************************************)
(* C6 as claimed. Sink-read errors in both triggers: a cycle whose read of *)
(* the sink secret failed with a cause other than NotFound issues no       *)
(* Create and no Update and returns that error. The Lambda refutes it: it  *)
(* takes every error of the read for absence and issues a Create.          *)
(***************************************************************************)
C6_SinkReadErrorAborts ==
    \A w \in Workers :
        (Done(w) /\ SinkReadFailed(w)) =>
            /\ Writes(w) = <<>>
            /\ ret[w].err # Nil
            /\ Cause(ret[w].err) = Cause(existing[w].err)

(***************************************************************************)
(* C7 as claimed. Malformed source text in both triggers: a cycle that     *)
(* read text which is not a flat object of strings fails, writes nothing   *)
(* to the sink, and does not wrap the raw text under one fixed key. The    *)
(* Lambda refutes it: it wraps text it cannot decode under "secret".       *)
(***************************************************************************)
\* not an object, or an object with a member that is neither string nor null
Malformed(doc) ==
    \/ doc.syntax \in {"garbage", "scalar"}
    \/ doc.syntax = "object" /\ \E p \in doc.members : p[2][1] \notin {"str", "null"}

\* the text the cycle's GetSecretValue returned
TextRead(w) == source[SourceCalls(w)[1].key].SecretString[1]

ReadMalformed(w) ==
    /\ Done(w)
    /\ SourceCalls(w) # <<>> /\ SourceCalls(w)[1].err = Nil
    /\ source[SourceCalls(w)[1].key].SecretString # <<>>
    /\ Malformed(TextRead(w))

C7_MalformedIsFatal ==
    \A w \in Workers :
        ReadMalformed(w) =>
            /\ ret[w].err # Nil
            /\ Writes(w) = <<>>
            /\ desired[w].found => desired[w].Data # {<<"secret", TextRead(w).raw>>}

(***************************************************************************)
(* C7 as amended. In the controller a cycle that read text which is not a  *)
(* JSON object, or an object with a member that is neither a string nor    *)
(* null, returns the decoding error and calls the sink neither to read nor *)
(* to write. In the Lambda such text is not fatal: text that is not a JSON *)
(* object becomes the payload {"secret": raw text}, an object keeps its    *)
(* keys, and the cycle goes on to the sink.                                *)
(***************************************************************************)
C7_MalformedSourceText ==
    \A w \in Workers :
        ReadMalformed(w) =>
            /\ trig[w] = "controller" =>
                /\ Cause(ret[w].err) \in {"json.SyntaxError", "json.UnmarshalTypeError"}
                /\ ~desired[w].found
                /\ SinkCalls(w) = <<>>
                /\ sink = before[w]
            /\ trig[w] = "lambda" =>
                /\ desired[w].found
                /\ TextRead(w).syntax # "object" =>
                        desired[w].Data = {<<"secret", TextRead(w).raw>>}
                /\ TextRead(w).syntax = "object" =>
                        Keys(desired[w].Data) = Keys(TextRead(w).members)
                /\ Succeeded(w) => SamePayload(sink[target[w]].Data, desired[w].Data)

C7_Witness ==
    \E w \in Workers :
        /\ ReadMalformed(w) /\ trig[w] = "controller"
        /\ TextRead(w) = GarbageDoc
        /\ ret[w].err = NewError("json.SyntaxError")

C7_WitnessLambda ==
    \E w \in Workers :
        /\ ReadMalformed(w) /\ trig[w] = "lambda"
        /\ TextRead(w) = GarbageDoc
        /\ Succeeded(w)
        /\ sink[target[w]].Data = {<<"secret", "not-json">>}

(***************************************************************************)
(* C8 as claimed. No partial writes in either trigger: a cycle issues at   *)
(* most one Create or Update and only reads the source; when a step before *)
(* the write failed, the sink is as it was; a failed write is returned as  *)
(* an error and the sink is as it was. The Lambda refutes the second part  *)
(* through the fault of C6: after a failed read it still creates.          *)
(***************************************************************************)
FailedBeforeWrite(w) ==
    \/ SourceFailed(w)
    \/ SinkReadFailed(w)
    \/ \E i \in 1..Len(calls[w]) : ~IsWrite(calls[w][i]) /\ ~IsSinkCall(calls[w][i])
                                      /\ calls[w][i].err # Nil

C8_NoPartialWrites ==
    \A w \in Workers :
        Done(w) =>
            /\ Len(Writes(w)) <= 1
            /\ \A i \in 1..Len(SourceCalls(w)) : SourceCalls(w)[i].op = "GetSecretValue"
            /\ FailedBeforeWrite(w) => sink = before[w]
            /\ (Writes(w) # <<>> /\ Writes(w)[1].err # Nil) =>
                    (ret[w].err # Nil /\ sink = before[w])

(***************************************************************************)
(* C9 as claimed. Update footprint in both triggers: an Update that went   *)
(* through leaves the secret it read with the desired payload and the type *)
(* Opaque, every other field as read. The Lambda refutes it: it sets the   *)
(* payload alone and leaves the type it read.                              *)
(***************************************************************************)
Updated(w) ==
    /\ Done(w) /\ FoundExisting(w)
    /\ Len(Writes(w)) = 1 /\ Writes(w)[1].op = "Update" /\ Writes(w)[1].err = Nil

C9_UpdateFootprint ==
    \A w \in Workers :
        Updated(w) =>
            sink[target[w]] = [existing[w].obj EXCEPT !.Data = desired[w].Data,
                                                      !.Type = SecretTypeOpaque]

(***************************************************************************)
(* C10 as claimed. Labeling: a secret created by either trigger carries a  *)
(* label or annotation naming the managing process when it is created.     *)
(* The controller refutes it: its secret has no label and no annotation.   *)
(***************************************************************************)
Created(w) ==
    /\ Done(w)
    /\ Len(Writes(w)) = 1 /\ Writes(w)[1].op = "Create" /\ Writes(w)[1].err = Nil

C10_CreatedIsLabeled ==
    \A w \in Workers :
        Created(w) =>
            \E p \in sink[target[w]].Labels \cup sink[target[w]].Annotations :
                p[1] = "managed-by"

(***************************************************************************)
(* What holds of the code where C6, C8, C9 and C10 fail.                   *)
(***************************************************************************)
\* C6, the controller alone: a failed read other than NotFound ends the
\* cycle with that error and without a write
C6_ControllerAborts ==
    \A w \in Workers :
        (Done(w) /\ SinkReadFailed(w) /\ trig[w] = "controller") =>
            /\ Writes(w) = <<>>
            /\ ret[w].err = existing[w].err
            /\ sink = before[w]

\* C8 without its second part: at most one write, only reads of the source,
\* a failed write returned as an error with the sink as it was
C8_SingleWrite ==
    \A w \in Workers :
        Done(w) =>
            /\ Len(Writes(w)) <= 1
            /\ Writes(w) # <<>> => calls[w][Len(calls[w])] = Writes(w)[1]
            /\ \A i \in 1..Len(SourceCalls(w)) : SourceCalls(w)[i].op = "GetSecretValue"
            /\ (trig[w] = "controller" /\ FailedBeforeWrite(w)) => sink = before[w]
            /\ (Writes(w) # <<>> /\ Writes(w)[1].err # Nil) =>
                    (ret[w].err # Nil /\ sink = before[w])

\* C9 with the Lambda's type left as read
C9_FootprintByTrigger ==
    \A w \in Workers :
        Updated(w) =>
            sink[target[w]] =
                [existing[w].obj EXCEPT
                    !.Data = desired[w].Data,
                    !.Type = IF trig[w] = "controller" THEN SecretTypeOpaque ELSE @]

\* C10, the Lambda alone: the secret it creates carries its managed-by label
C10_LambdaLabeled ==
    \A w \in Workers :
        (Created(w) /\ trig[w] = "lambda") =>
            <<"managed-by", "aws-secrets-sync-lambda">> \in sink[target[w]].Labels

----------------------------------------------------------------------------
(***************************************************************************)
(* C11. Ownership linkage: a sink secret created by Reconcile carries a    *)
(* controller owner reference to the SecretManager binding of the request, *)
(* and no other owner; a cycle in which SetControllerReference fails       *)
(* returns that error without a requeue interval and has neither read nor  *)
(* written the sink secret.                                                *)
(***************************************************************************)
OwnerFailed(w) ==
    /\ Done(w) /\ trig[w] = "controller"
    /\ ret[w].err = <<"SetControllerReference">>

C11_OwnershipLinkage ==
    \A w \in Workers :
        /\ (Created(w) /\ trig[w] = "controller") =>
                sink[target[w]].OwnerReferences =
                    {[Kind |-> "SecretManager", Name |-> req[w].key[2], Controller |-> TRUE]}
        /\ OwnerFailed(w) =>
                /\ SinkCalls(w) = <<>>
                /\ sink = before[w]
                /\ ret[w].RequeueAfter = 0

C11_Witness ==
    \E w \in Workers :
        /\ Created(w) /\ trig[w] = "controller"
        /\ req[w].key = <<"default", "sm-db">>
        /\ sink[target[w]].Data # {}

C11_WitnessFailure ==
    \E w \in Workers : OwnerFailed(w) /\ SourceCalls(w) # <<>>

(***************************************************************************)
(* C12. Fixed re-check interval: a Reconcile cycle that reached a decision *)
(* and carried it out (Create, Update or NoOp) returns RequeueAfter of 10  *)
(* seconds and a nil error; every other return of Reconcile has no         *)
(* requeue interval.                                                       *)
(***************************************************************************)
Completed(w) ==
    \/ FoundExisting(w) /\ Writes(w) = <<>>
    \/ Writes(w) # <<>> /\ Writes(w)[1].err = Nil

C12_FixedInterval ==
    \A w \in Workers :
        (Done(w) /\ trig[w] = "controller") =>
            IF Completed(w)
            THEN ret[w].RequeueAfter = 10 /\ ret[w].err = Nil /\ ~ret[w].panicked
            ELSE ret[w].RequeueAfter = 0

C12_Witness ==
    \E w \in Workers :
        /\ Done(w) /\ trig[w] = "controller"
        /\ FoundExisting(w) /\ Writes(w) = <<>>
        /\ ret[w].RequeueAfter = 10

C12_WitnessUpdate ==
    \E w \in Workers : Updated(w) /\ trig[w] = "controller" /\ ret[w].RequeueAfter = 10

C12_WitnessCreate ==
    \E w \in Workers : Created(w) /\ trig[w] = "controller" /\ ret[w].RequeueAfter = 10

C12_WitnessDeleted ==
    \E w \in Workers :
        /\ Done(w) /\ trig[w] = "controller"
        /\ ret[w].err = Nil /\ ret[w].RequeueAfter = 0

(***************************************************************************)
(* C13 as claimed. Re-check regardless of outcome: every completed         *)
(* Reconcile cycle for a binding that exists, failed or successful, is     *)
(* followed by another cycle for the same identity after the fixed         *)
(* interval, and repeats no call inside the cycle. A failed cycle refutes  *)
(* it: it returns ctrl.Result{} with the error, so the request comes back  *)
(* through the rate limiter and not after the 10 seconds.                  *)
(***************************************************************************)
IsBindingGet(c) == c.svc = "k8s" /\ c.kind = "SecretManager" /\ c.op = "Get"
IsSinkGet(c) == IsSinkCall(c) /\ c.op = "Get"

NoRetryInside(w) ==
    /\ Len(SelectSeq(calls[w], IsBindingGet)) = 1
    /\ Len(SourceCalls(w)) <= 1
    /\ Len(SelectSeq(calls[w], IsSinkGet)) <= 1
    /\ Len(Writes(w)) <= 1

CompletedForBinding(w) ==
    /\ Done(w) /\ trig[w] = "controller"
    /\ bindings[req[w].key].found

C13_RecheckAfterFixedInterval ==
    \A w \in Workers :
        CompletedForBinding(w) =>
            /\ Requeue(ret[w]) = [again |-> TRUE, rateLimited |-> FALSE, after |-> 10]
            /\ NoRetryInside(w)

(***************************************************************************)
(* C13. Re-check by outcome: every completed Reconcile cycle for a binding *)
(* that exists is followed by another cycle for the same identity and      *)
(* repeats no call inside the cycle; after a successful cycle the next one *)
(* comes after the fixed 10 seconds, after a failed cycle the handler asks *)
(* for no interval and the request comes back through the rate limiter.    *)
(***************************************************************************)
C13_RecheckByOutcome ==
    \A w \in Workers :
        CompletedForBinding(w) =>
            /\ Requeue(ret[w]).again
            /\ Succeeded(w) =>
                    Requeue(ret[w]) = [again |-> TRUE, rateLimited |-> FALSE, after |-> 10]
            /\ ~Succeeded(w) =>
                    /\ ret[w].RequeueAfter = 0
                    /\ Requeue(ret[w]) = [again |-> TRUE, rateLimited |-> TRUE, after |-> 0]
            /\ NoRetryInside(w)

C13_Witness ==
    \E w \in Workers :
        /\ CompletedForBinding(w)
        /\ SourceFailed(w)
        /\ Requeue(ret[w]).rateLimited

C13_WitnessSuccess ==
    \E w \in Workers :
        /\ CompletedForBinding(w) /\ Succeeded(w)
        /\ Requeue(ret[w]).after = 10

(***************************************************************************)
(* C14. Cycles for one identity that nothing serialises: a cycle that ran  *)
(* with no other cycle beside it and succeeded leaves the sink secret with *)
(* the payload it read from the source. (The witness is the race: of two   *)
(* overlapping successful cycles the one that read the older source value  *)
(* writes last, and the sink payload is not the source's current value.)   *)
(***************************************************************************)
Synced(w) ==
    /\ Done(w) /\ Succeeded(w) /\ Completed(w)

C14_SerialisedCycleWritesWhatItRead ==
    \A w \in Workers :
        (Synced(w) /\ alone[w]) =>
            /\ sink[target[w]].found
            /\ SamePayload(sink[target[w]].Data, desired[w].Data)

\* the payload a cycle of worker w would read from the source now
CurrentPayload(w) ==
    IF trig[w] = "controller"
    THEN ReconcileSecretData(source[SourceCalls(w)[1].key]).data
    ELSE LambdaSecretData(source[SourceCalls(w)[1].key]).data

StaleWriterLast(w, v) ==
    /\ w # v
    /\ Synced(w) /\ Synced(v)
    /\ target[w] = target[v]
    /\ Writes(w) # <<>> /\ Writes(v) # <<>>
    /\ desired[v].Data = CurrentPayload(v)
    /\ desired[w].Data # CurrentPayload(w)
    /\ sink[target[w]].Data = desired[w].Data

C14_Witness ==
    \E w, v \in Workers :
        /\ StaleWriterLast(w, v)
        /\ trig[w] = "controller" /\ trig[v] = "controller"

C14_WitnessLambda ==
    \E w, v \in Workers :
        /\ StaleWriterLast(w, v)
        /\ trig[w] = "lambda" /\ trig[v] = "lambda"

C14_WitnessSerial ==
    \E w \in Workers :
        /\ Synced(w) /\ alone[w] /\ Writes(w) # <<>>
        /\ desired[w].Data # CurrentPayload(w)

(***************************************************************************)
(* C15. Independence of identities: under any interleaving of cycles for   *)
(* distinct identities, a cycle reads and writes only the sink secret of   *)
(* its own identity; a step changes a sink secret only if it is the write  *)
(* of a cycle for that secret's identity; and each sink secret goes        *)
(* through what it would with its cycles alone: it stays as it was when    *)
(* the cycle began until the cycle writes, the cycle reads what was there  *)
(* when it began, and after the write the secret holds the cycle's payload *)
(* with, for an Update, the rest of what the cycle read.                   *)
(***************************************************************************)
OwnSecretOnly(w) ==
    \A i \in 1..Len(calls[w]) :
        IsSinkCall(calls[w][i]) => calls[w][i].key = Identity(w)

Wrote(w) == Writes(w) # <<>> /\ Writes(w)[1].err = Nil

AsIfAlone(w) ==
    LET id == Identity(w)
        was == before[w][id]
    IN  /\ FoundExisting(w) => existing[w].obj = was
        /\ FoundAbsent(w) => ~was.found
        /\ ~Wrote(w) => sink[id] = was
        /\ Wrote(w) =>
                /\ sink[id].found
                /\ SamePayload(sink[id].Data, desired[w].Data)
                /\ Writes(w)[1].op = "Update" =>
                        sink[id] = [was EXCEPT
                                      !.Data = desired[w].Data,
                                      !.Type = IF trig[w] = "controller" THEN "Opaque" ELSE @]

WriteOfOwnCycle ==
    \A k \in SinkKeys :
        sink'[k] # sink[k] =>
            \E w \in Workers :
                /\ pc[w] \in {"c_apply", "l_apply"}
                /\ Identity(w) = k
                /\ Len(calls'[w]) = Len(calls[w]) + 1

C15_Independence ==
    /\ [](\A w \in Workers : pc[w] # "idle" => (OwnSecretOnly(w) /\ AsIfAlone(w)))
    /\ [][WriteOfOwnCycle]_vars

SideBySide(w, v) ==
    /\ Done(w) /\ Wrote(w)
    /\ Done(v) /\ Wrote(v)
    /\ ~alone[w] /\ ~alone[v]
    /\ Identity(w) = <<"default", SyncedName>>
    /\ Identity(v) = <<"default", OtherName>>

C15_Witness ==
    \E w, v \in Workers :
        /\ SideBySide(w, v)
        /\ trig[w] = "lambda" /\ trig[v] = "controller"

C15_WitnessControllers ==
    \E w, v \in Workers :
        /\ SideBySide(w, v)
        /\ trig[w] = "controller" /\ trig[v] = "controller"
        /\ Writes(w)[1].op = "Update"

(***************************************************************************)
(* C16. Convergence and drift repair under the timer-driven trigger: once  *)
(* the binding exists, the source stays at P, external calls do not fail   *)
(* and cycles run one at a time, the sink secret's payload eventually      *)
(* equals P and stays equal to P, whatever state the sink secret was in    *)
(* and although a user changes or deletes it between cycles; and whenever  *)
(* a successful cycle has returned, the payload is P. The one state in     *)
(* which calls cannot stop failing is a sink secret of a type other than   *)
(* Opaque with a payload other than P: the API server refuses every Update *)
(* of Reconcile, which sets the type; each cycle then returns that error   *)
(* and leaves the secret as it is, until a user deletes or changes it.     *)
(***************************************************************************)
SourcePayload == ReconcileSecretData(source[SyncedName]).data

SinkHoldsSourcePayload ==
    /\ sink[<<"default", SyncedName>>].found
    /\ SamePayload(sink[<<"default", SyncedName>>].Data, SourcePayload)

\* the Update of Reconcile is refused: the calls do not stop failing
UpdateRefused ==
    /\ sink[<<"default", SyncedName>>].found
    /\ sink[<<"default", SyncedName>>].Type # "Opaque"
    /\ ~SamePayload(sink[<<"default", SyncedName>>].Data, SourcePayload)

C16_Convergence ==
    /\ <>[](SinkHoldsSourcePayload \/ UpdateRefused)
    /\ [](\A w \in Workers :
            /\ (Done(w) /\ Succeeded(w)) => SinkHoldsSourcePayload
            /\ (Done(w) /\ ~Succeeded(w)) => (UpdateRefused /\ sink = before[w]))
    /\ [](UpdateRefused => \A w \in Workers : ~(Done(w) /\ Succeeded(w)))

\* a user changed the secret a cycle had synced, and the next cycle repaired it
C16_Witness ==
    \E w \in Workers :
        /\ Done(w) /\ Succeeded(w) /\ Wrote(w)
        /\ last.found /\ last.ok
        /\ ~quiet
        /\ ~SamePayload(before[w][target[w]].Data, SourcePayload)
        /\ SinkHoldsSourcePayload

C16_WitnessDeleted ==
    \E w \in Workers :
        /\ Created(w) /\ last.found /\ last.ok /\ ~quiet
        /\ SinkHoldsSourcePayload

(***************************************************************************)
(* C17. Source decoding, in both triggers: when the source's text is a     *)
(* JSON object whose values are all strings, the desired payload has       *)
(* exactly the object's keys and under each key the bytes of its string;   *)
(* when the source holds no text but a binary blob, the desired payload is *)
(* the single key "secret" with that blob.                                 *)
(***************************************************************************)
FlatStringMap(doc) ==
    /\ doc.syntax = "object"
    /\ \A p \in doc.members : p[2][1] = "str"

\* the source value the cycle read (the source keeps it while the cycle runs)
ValueRead(w) == source[SourceCalls(w)[1].key]

ReadFlatText(w) ==
    /\ desired[w].found
    /\ ValueRead(w).SecretString # <<>>
    /\ FlatStringMap(ValueRead(w).SecretString[1])

ReadBlob(w) ==
    /\ desired[w].found
    /\ ValueRead(w).SecretString = <<>>
    /\ ValueRead(w).SecretBinary # <<>>

C17_SourceDecoding ==
    \A w \in Workers :
        /\ ReadFlatText(w) =>
            LET members == ValueRead(w).SecretString[1].members
            IN  /\ Keys(desired[w].Data) = {p[1] : p \in members}
                /\ MapLen(desired[w].Data) = Cardinality(members)
                /\ \A p \in members : Lookup(desired[w].Data, p[1]) = p[2][2]
        /\ ReadBlob(w) =>
            desired[w].Data = {<<"secret", ValueRead(w).SecretBinary[1]>>}

C17_WitnessText ==
    \E w \in Workers :
        /\ ReadFlatText(w) /\ trig[w] = "lambda"
        /\ desired[w].Data = {<<"username", "a">>, <<"password", "b">>}

C17_WitnessTextController ==
    \E w \in Workers :
        /\ ReadFlatText(w) /\ trig[w] = "controller"
        /\ desired[w].Data = {<<"username", "a">>, <<"password", "b">>}

C17_WitnessBlob ==
    \E w \in Workers :
        /\ ReadBlob(w) /\ trig[w] = "lambda"
        /\ desired[w].Data = {<<"secret", "blob">>}

C17_WitnessBlobController ==
    \E w \in Workers :
        /\ ReadBlob(w) /\ trig[w] = "controller"
        /\ desired[w].Data = {<<"secret", "blob">>}

(***************************************************************************)
(* C18. Deleted binding: a Reconcile cycle whose lookup of the binding     *)
(* answers NotFound returns a nil error and no requeue, and one whose      *)
(* lookup fails otherwise returns that error; in both cases the lookup is  *)
(* the cycle's only call: no source fetch, no read and no write of a sink  *)
(* secret.                                                                 *)
(***************************************************************************)
BindingLookupFailed(w) ==
    /\ Done(w) /\ trig[w] = "controller"
    /\ IsBindingGet(calls[w][1])
    /\ calls[w][1].err # Nil

C18_DeletedBinding ==
    \A w \in Workers :
        BindingLookupFailed(w) =>
            /\ Len(calls[w]) = 1
            /\ SourceCalls(w) = <<>> /\ SinkCalls(w) = <<>>
            /\ sink = before[w]
            /\ IF calls[w][1].err = <<"NotFound">>
               THEN /\ ret[w] = [returned |-> TRUE, panicked |-> FALSE,
                                 RequeueAfter |-> 0, err |-> <<>>]
                    /\ ~Requeue(ret[w]).again
               ELSE /\ ret[w].err = calls[w][1].err
                    /\ ret[w].RequeueAfter = 0

C18_Witness ==
    \E w \in Workers :
        /\ BindingLookupFailed(w)
        /\ req[w].key = <<"default", "sm-gone">>
        /\ calls[w][1].err = <<"NotFound">>
        /\ \E k \in SinkKeys : sink[k].found

C18_WitnessOtherError ==
    \E w \in Workers :
        /\ BindingLookupFailed(w)
        /\ calls[w][1].err = <<"Forbidden">>
        /\ ret[w].err = <<"Forbidden">>

(***************************************************************************)
(* C19. Prefix filter in the Lambda: a configured HandleRequest goes past  *)
(* the filter, to any call at all, only for an event whose secret name     *)
(* starts with SECRET_PREFIX, or with "eks-sync-" when SECRET_PREFIX is    *)
(* not set; for an event whose name does not start with it, it returns nil *)
(* and has made no call: no source fetch, no cluster connection, no read   *)
(* and no write of a sink secret.                                          *)
(***************************************************************************)
ConfiguredPrefix ==
    IF environ.SECRET_PREFIX = <<>> THEN <<"eks-sync-">> ELSE environ.SECRET_PREFIX

StartsWithConfiguredPrefix(name) ==
    /\ Len(name) >= Len(ConfiguredPrefix)
    /\ \A i \in 1..Len(ConfiguredPrefix) : name[i] = ConfiguredPrefix[i]

\* the handler loaded its configuration and took the name from the event
TookName(w) ==
    /\ pc[w] # "idle" /\ trig[w] = "lambda"
    /\ environ.EKS_CLUSTER_NAME # ""
    /\ req[w].event.detailOk

C19_PrefixFilter ==
    \A w \in Workers :
        /\ (pc[w] # "idle" /\ trig[w] = "lambda" /\ calls[w] # <<>>) =>
                StartsWithConfiguredPrefix(req[w].event.secretId)
        /\ (TookName(w) /\ ~StartsWithConfiguredPrefix(req[w].event.secretId)) =>
                /\ Done(w)
                /\ ret[w] = [returned |-> TRUE, panicked |-> FALSE,
                             RequeueAfter |-> 0, err |-> <<>>]
                /\ calls[w] = <<>>
                /\ sink = before[w]

C19_Witness ==
    \E w \in Workers :
        /\ TookName(w) /\ Done(w)
        /\ environ.SECRET_PREFIX = <<>>
        /\ req[w].event.secretId = <<"app-", "db">>
        /\ calls[w] = <<>>

C19_WitnessConfigured ==
    \E w \in Workers :
        /\ TookName(w) /\ Done(w)
        /\ environ.SECRET_PREFIX = <<"app-">>
        /\ req[w].event.secretId = <<"eks-sync-", "db">>
        /\ calls[w] = <<>>

C19_WitnessSynced ==
    \E w \in Workers :
        /\ TookName(w) /\ Done(w) /\ Wrote(w)
        /\ environ.SECRET_PREFIX = <<"app-">>
        /\ req[w].event.secretId = <<"app-", "db">>

(***************************************************************************)
(* C20. Fail fast on missing required configuration: when the variable     *)
(* EKS_CLUSTER_NAME is not set, HandleRequest panics, whether the event's  *)
(* detail parses or not, and has made no call; when it is set, loading the *)
(* configuration does not fail, whichever of the other variables are set:  *)
(* HandleRequest never ends in that panic (the one panic left is the nil   *)
(* dereference after a DescribeCluster that answered), and each of region, *)
(* prefix and namespace is the variable's value when set and "us-east-1",  *)
(* "eks-sync-" and "default" when not.                                     *)
(***************************************************************************)
C20_FailFast ==
    \A w \in Workers :
        (pc[w] # "idle" /\ trig[w] = "lambda") =>
            IF environ.EKS_CLUSTER_NAME = ""
            THEN /\ Done(w)
                 /\ ret[w].panicked
                 /\ ret[w].err = <<"EKS_CLUSTER_NAME environment variable is required">>
                 /\ calls[w] = <<>>
                 /\ sink = before[w]
            ELSE /\ (ret[w].returned /\ ret[w].panicked) =>
                        /\ ret[w].err # <<"EKS_CLUSTER_NAME environment variable is required">>
                        /\ calls[w] # <<>>
                        /\ calls[w][Len(calls[w])].op = "DescribeCluster"
                        /\ calls[w][Len(calls[w])].err = <<>>
                 /\ req[w].cfg.Region =
                        IF environ.AWS_REGION = "" THEN "us-east-1" ELSE environ.AWS_REGION
                 /\ req[w].cfg.SecretPrefix =
                        IF environ.SECRET_PREFIX = <<>> THEN <<"eks-sync-">>
                        ELSE environ.SECRET_PREFIX
                 /\ req[w].cfg.Namespace =
                        IF environ.K8S_NAMESPACE = "" THEN "default" ELSE environ.K8S_NAMESPACE

C20_Witness ==
    \E w \in Workers :
        /\ Done(w) /\ trig[w] = "lambda"
        /\ environ.EKS_CLUSTER_NAME = ""
        /\ ~req[w].event.detailOk
        /\ ret[w].panicked

C20_WitnessDefaults ==
    \E w \in Workers :
        /\ Done(w) /\ trig[w] = "lambda" /\ Wrote(w)
        /\ environ = [EKS_CLUSTER_NAME |-> "demo-eks", AWS_REGION |-> "",
                      SECRET_PREFIX |-> <<>>, K8S_NAMESPACE |-> ""]
        /\ target[w] = <<"default", <<"eks-sync-", "db">>>>
        /\ sink[target[w]].found

\* with the cluster name set and a cluster without endpoint or certificate,
\* HandleRequest panics after DescribeCluster, before any call to the sink
C20_WitnessDereference ==
    \E w \in Workers :
        /\ Done(w) /\ trig[w] = "lambda"
        /\ environ.EKS_CLUSTER_NAME = "demo-eks"
        /\ ret[w].panicked
        /\ SinkCalls(w) = <<>>

\* a secret of another type with a payload other than P: the cycle's Update
\* is refused and the secret stays as it is
C16_WitnessRefused ==
    \E w \in Workers :
        /\ Done(w) /\ ~Succeeded(w)
        /\ Len(Writes(w)) = 1 /\ Writes(w)[1].err = <<"Invalid">>
        /\ UpdateRefused

====
